---- MODULE Spec2Model ----
(***************************************************************************)
(* A model of src/src/verifier.ts: Verifier.verify and the stages it       *)
(* sequences (registry, checkout, pack, compare), at the granularity of    *)
(* the await points of the asynchronous code.  One action is one           *)
(* continuation: everything the code does between the completion of one    *)
(* awaited call and the issue of the next.                                 *)
(*                                                                         *)
(* Strings whose characters matter (descriptors, versions, dist-tags) are  *)
(* tuples of one-character strings; the JavaScript value undefined is the  *)
(* tuple Undefined, which no such string equals.                           *)
(***************************************************************************)
EXTENDS Integers, Sequences, FiniteSets, TLC

(* ------------------------------ bounds --------------------------------- *)

\* Number of verify calls that may be in flight in one process (SpecConc).
NumRuns == 2
\* Member paths a tarball manifest may hold.
MaxPaths == 2
\* Distinct content fingerprints a member file may have.
NumFingerprints == 2

Runs == 1..NumRuns
Paths == 1..MaxPaths
Fingerprints == 1..NumFingerprints

(* ------------------------- JavaScript values --------------------------- *)

Undefined == <<"undefined">>
Null == <<"null">>

\* JavaScript truthiness of a string-or-undefined value.
Truthy(v) == v # Undefined /\ v # <<>>

\* Or with its operands the other way round: b || a.
OrSwapped(a, b) == IF Truthy(b) THEN b ELSE a

\* a || b
Or(a, b) == IF Truthy(a) THEN a ELSE b

\* StartsWith looking at the last character instead of the first.
StartsWithLast(s, c) == Len(s) > 0 /\ s[Len(s)] = c

\* String.prototype.startsWith for a one-character prefix.
StartsWith(s, c) == Len(s) > 0 /\ s[1] = c

\* Index of the first occurrence of character c in s, 0 when there is none.
RECURSIVE IndexOf(_, _, _)
IndexOf(s, c, i) ==
  IF i > Len(s) THEN 0
  ELSE IF s[i] = c THEN i
  ELSE IndexOf(s, c, i + 1)

\* String.prototype.split on a one-character separator: the pieces between
\* the separators, in order ("".split gives one empty piece).
RECURSIVE Split(_, _)
Split(s, c) ==
  LET i == IndexOf(s, c, 1) IN
  IF i = 0 THEN <<s>>
  ELSE <<SubSeq(s, 1, i - 1)>> \o Split(SubSeq(s, i + 1, Len(s)), c)

\* arr[i] of a JavaScript array (1-based here): undefined past the end.
At(arr, i) == IF i <= Len(arr) THEN arr[i] ELSE Undefined

(* --------------------------- the progress model ------------------------ *)

Stages == <<"registry", "repo", "gitHead", "checkout", "install", "pack", "compare">>
StageSet == {Stages[i] : i \in 1..Len(Stages)}

\* A stage message: its fixed text and the values interpolated into it.
Msg(text, args) == [text |-> text, args |-> args]
NoMsg == Msg("", <<>>)

createProgress == [s \in StageSet |-> "pending"]

\* Engine.updateProgress on the engine state e = [progress, message,
\* hasFailed, log]: the stage takes the status and the message, a fail raises
\* hasFailed, and the transition is appended to the log.
updateProgress(e, step, status, message) ==
  [progress  |-> [e.progress EXCEPT ![step] = status],
   message   |-> [e.message EXCEPT ![step] = message],
   hasFailed |-> e.hasFailed \/ status = "fail",
   log       |-> Append(e.log, <<step, status>>)]

\* The updateProgress calls ups = <<stage, status, message>>, ... in order.
RECURSIVE updateAll(_, _)
updateAll(e, ups) ==
  IF ups = <<>> THEN e
  ELSE updateAll(updateProgress(e, ups[1][1], ups[1][2], ups[1][3]), Tail(ups))

(* --------------------------- descriptor parser ------------------------- *)

\* Verifier.splitPackageDescriptor.  threw: scopeSplit[1] is undefined and
\* calling split on it raises a TypeError.
splitPackageDescriptor(packageDescriptor) ==
  IF StartsWith(packageDescriptor, "@")
  THEN LET scopeSplit == Split(packageDescriptor, "/") IN
       IF Len(scopeSplit) < 2
       THEN [threw |-> TRUE, scope |-> Undefined,
             packageName |-> Undefined, version |-> Undefined]
       ELSE LET packageSplit == Split(scopeSplit[2], "@") IN
            [threw |-> FALSE, scope |-> scopeSplit[1],
             packageName |-> packageSplit[1], version |-> At(packageSplit, 2)]
  ELSE LET packageSplit == Split(packageDescriptor, "@") IN
       [threw |-> FALSE, scope |-> Undefined,
        packageName |-> packageSplit[1], version |-> At(packageSplit, 2)]

\* The descriptors verify is called with: name, name@version (a published
\* and an unpublished version), @scope/name@version, and @scope alone.
Descriptors ==
  { <<"a">>, <<"a", "@", "1">>, <<"a", "@", "2">>,
    <<"@", "s", "/", "a", "@", "1">>, <<"@", "s">> }

(* --------------------------- registry documents ------------------------ *)

Latest == <<"l", "a", "t", "e", "s", "t">>
V1 == <<"1">>
Commit == <<"c", "0", "f", "f", "e", "e", "1", "2", "3">>
Tarball == <<"t", "g", "z">>
Shasum == <<"s", "h", "a">>

\* A repository URL as url.parse sees it: <<protocol, auth, host, path>>.
SampleUrl == <<"git+ssh://", "git@", "h", "/p.git">>
parseUrl(url) == [host |-> url[3], path |-> url[4]]

NoRepository == [present |-> FALSE, type |-> "", url |-> Undefined]
Repositories ==
  { NoRepository,
    [present |-> TRUE, type |-> "svn", url |-> SampleUrl],
    [present |-> TRUE, type |-> "git", url |-> Undefined],
    [present |-> TRUE, type |-> "git", url |-> SampleUrl] }

NoDist == [present |-> FALSE, tarball |-> Undefined, shasum |-> Undefined]
Dists == { NoDist, [present |-> TRUE, tarball |-> Tarball, shasum |-> Shasum] }

\* versions[v] of the registry document; present = FALSE is a missing record.
NoVersionInfo ==
  [present |-> FALSE, repository |-> NoRepository, gitHead |-> Undefined,
   legacyShasum |-> Undefined, dist |-> NoDist]
VersionInfos ==
  { [present |-> TRUE, repository |-> rp, gitHead |-> g,
     legacyShasum |-> Undefined, dist |-> d] :
      rp \in Repositories, g \in {Undefined, Commit}, d \in Dists }

\* obj[key] of a JavaScript object held as a function: undefined (or the given
\* default) when the key is missing.
Get(obj, key, default) == IF key \in DOMAIN obj THEN obj[key] ELSE default

\* No document: the GET has not answered, or it failed.
NoInfo ==
  [distTags |-> [present |-> FALSE, map |-> <<>>],
   versions |-> [present |-> FALSE, map |-> <<>>]]

\* The documents the registry answers with: with or without a dist-tags map
\* (holding latest when present), with or without a versions map (holding
\* the record of version 1 when present).
Infos ==
  { [distTags |-> [present |-> dt, map |-> [k \in {Latest} |-> V1]],
     versions |-> [present |-> vp, map |-> [k \in {V1} |-> vi]]] :
      dt \in BOOLEAN, vp \in BOOLEAN, vi \in VersionInfos }

\* Verifier.registry after the awaited get: fetched = FALSE is the get
\* rejecting.  ups are the updateProgress calls made after the first
\* ('registry', 'working'), ret the object returned (<<>> is {}), and
\* versionInfo the version record found.
registry(fetched, info, version) ==
  LET tag == IF info.distTags.present
             THEN Get(info.distTags.map, Or(version, Latest), Undefined)
             ELSE Undefined
      resolvedVersion == Or(tag, version)
      versionInfo == IF info.versions.present
                     THEN Get(info.versions.map, resolvedVersion, NoVersionInfo)
                     ELSE NoVersionInfo
      url == parseUrl(versionInfo.repository.url)
      repoUrl == <<"https://", url.host, url.path>>
      shasum == Or(versionInfo.legacyShasum,
                   IF versionInfo.dist.present THEN versionInfo.dist.shasum
                   ELSE Undefined)
      tarballUri == IF versionInfo.dist.present THEN versionInfo.dist.tarball
                    ELSE Undefined
      Failed(ups, vi) == [ups |-> ups, ret |-> <<>>, versionInfo |-> vi]
  IN
  IF ~fetched
  THEN Failed(<< <<"registry", "fail",
                   Msg("Error fetching package data from registry", <<>>)>> >>,
              NoVersionInfo)
  ELSE IF ~Truthy(resolvedVersion)
  THEN Failed(<< <<"registry", "fail",
                   Msg("Cannot resolve version", <<version>>)>> >>,
              NoVersionInfo)
  ELSE IF ~versionInfo.present
  THEN Failed(<< <<"registry", "fail",
                   Msg("Cannot find info for version", <<resolvedVersion>>)>> >>,
              NoVersionInfo)
  ELSE IF ~versionInfo.repository.present
  THEN Failed(<< <<"registry", "pass", NoMsg>>, <<"repo", "working", NoMsg>>,
                 <<"repo", "fail",
                   Msg("Repository is not specified for version",
                       <<resolvedVersion>>)>> >>,
              versionInfo)
  ELSE IF versionInfo.repository.type # "git"
  THEN Failed(<< <<"registry", "pass", NoMsg>>, <<"repo", "working", NoMsg>>,
                 <<"repo", "fail",
                   Msg("Non-git repository specified for version",
                       <<resolvedVersion>>)>> >>,
              versionInfo)
  ELSE IF ~Truthy(versionInfo.repository.url)
  THEN Failed(<< <<"registry", "pass", NoMsg>>, <<"repo", "working", NoMsg>>,
                 <<"repo", "fail",
                   Msg("Repository URL is not specified for version",
                       <<resolvedVersion>>)>> >>,
              versionInfo)
  ELSE [ups |-> << <<"registry", "pass", NoMsg>>, <<"repo", "working", NoMsg>>,
                   <<"repo", "pass", NoMsg>>, <<"gitHead", "working", NoMsg>> >>
                \o (IF ~Truthy(versionInfo.gitHead)
                    THEN << <<"gitHead", "warn",
                              Msg("GitHead is not specified for version",
                                  <<resolvedVersion>>)>> >>
                    ELSE <<>>)
                \o << <<"gitHead", "pass", NoMsg>> >>,
        ret |-> [resolvedVersion |-> resolvedVersion, repoUrl |-> repoUrl,
                 shasum |-> shasum, tarballUri |-> tarballUri],
        versionInfo |-> versionInfo]

(* ------------------------------ manifests ------------------------------ *)

\* A manifest: the fingerprint of each member path of a tarball.
Manifests == UNION { [S -> Fingerprints] : S \in SUBSET Paths }

\* One of the two manifest acquisitions of compare: idle, pending, ok
\* (holding the manifest) or failed.
Acq(state, m) == [state |-> state, manifest |-> m]

\* utils.compareManifests(generated, published), keyed by path.
compareManifests(generated, published) ==
  [added    |-> DOMAIN generated \ DOMAIN published,
   removed  |-> DOMAIN published \ DOMAIN generated,
   modified |-> {p \in DOMAIN generated \cap DOMAIN published :
                   generated[p] # published[p]}]

NoDiff == [computed |-> FALSE, added |-> {}, removed |-> {}, modified |-> {}]

(* ------------------------- directories, commands ----------------------- *)

\* The directory the process starts in, the Workspace createTemp gives run
\* r, and the empty or undefined path.
OrigDir == <<"cwd">>
Dir(r) == <<"tmp", r>>
NoDir == <<>>

Cmd(cmd, arg) == [cmd |-> cmd, arg |-> arg]
NoCmd == Cmd("", <<>>)

\* The commands of the pipeline that work on the checked-out tree.
PipelineCmds ==
  {"git init", "git remote add origin", "git fetch --depth 1 origin",
   "git checkout FETCH_HEAD", "npm pack --unsafe-perm", "cipm", "npm ci"}
GitCmds ==
  {"git init", "git remote add origin", "git fetch --depth 1 origin",
   "git checkout FETCH_HEAD"}

\* The refspecs checkout fetches.
CommitRef(gitHead) == <<"", gitHead>>
VTagRef(resolvedVersion) == <<"tags/v", resolvedVersion>>
TagRef(resolvedVersion) == <<"tags/", resolvedVersion>>
NoRef == <<"", <<>>>>

(* ------------------------------ npm version ---------------------------- *)

\* semver.compare on <<major, minor, patch>>.
compare(a, b) ==
  IF a[1] # b[1] THEN (IF a[1] < b[1] THEN -1 ELSE 1)
  ELSE IF a[2] # b[2] THEN (IF a[2] < b[2] THEN -1 ELSE 1)
  ELSE IF a[3] # b[3] THEN (IF a[3] < b[3] THEN -1 ELSE 1)
  ELSE 0

\* npmci taking the legacy installer at the threshold too.
npmciInclusive(npmVersion) ==
  IF compare(npmVersion, <<5, 7, 0>>) <= 0 THEN "cipm" ELSE "npm ci"

\* Verifier.npmci: the installer command run.
npmci(npmVersion) ==
  IF compare(npmVersion, <<5, 7, 0>>) < 0 THEN "cipm" ELSE "npm ci"

\* What npm --version answers.
NpmVersions == { <<5, 6, 0>>, <<5, 7, 0>> }

(* -------------------------------- state -------------------------------- *)

VARIABLES
  env,                \* which inputs the calls draw from: "full" or "small"
  procCwd,            \* process.cwd(): the process-wide working directory
  dirs,               \* the directories that exist on disk
  pc,                 \* per run: the await the call is suspended at
  result,             \* per run: how the promise of verify settled
  progress, message, hasFailed, log,     \* per run: the Engine state
  npmVersion,         \* per run: this.npmVersion
  packageDescriptor,  \* per run: the argument of verify
  scope, packageName, version,           \* per run: the parsed descriptor
  request,            \* per run: the registry path of the GET in flight
  info,               \* per run: the document the registry answered with
  versionInfo,        \* per run: the version record registry() found
  resolvedVersion, repoUrl, gitHead, tarballUri,  \* per run: verify's locals
  cwd,                \* per run: the local cwd of checkout / pack
  tempDir,            \* per run: the Workspace path
  cleanupDir,         \* per run: verify's cleanupDir
  fetching,           \* per run: the refspec of the git fetch in flight
  refspec,            \* per run: the refspec fetched
  cmds,               \* per run: the commands handed to exec, in order
  lastCmd,            \* per run: the last such command and the cwd it ran in
  rm,                 \* per run: the rm -rf of the finally block
  stdout,             \* per run: pack's stdout, Null until an npm pack succeeds
  failedWithoutDependencies,             \* per run: pack's flag of that name
  generatedManifest, publishedManifest,  \* per run: the two acquisitions
  diff                \* per run: the diff traced by compare

engineVars == <<progress, message, hasFailed, log>>
descVars == <<packageDescriptor, scope, packageName, version>>
regVars == <<info, versionInfo, resolvedVersion, repoUrl, gitHead, tarballUri>>
fetchVars == <<fetching, refspec>>
packVars == <<stdout, failedWithoutDependencies>>
cmpVars == <<generatedManifest, publishedManifest, diff>>
ctlVars == <<pc, result, cleanupDir, procCwd, cwd, cmds, lastCmd, rm>>
vars == <<engineVars, descVars, regVars, fetchVars, packVars, cmpVars, ctlVars,
          dirs, npmVersion, request, tempDir, env>>

\* The inputs of the calls: the descriptors verify is called with, the
\* documents the registry answers with, the versions npm reports, and the
\* manifests the tarballs hold.
FullEnv ==
  [descriptors |-> Descriptors, infos |-> Infos,
   npmVersions |-> NpmVersions, manifests |-> Manifests]

\* A smaller choice of inputs, for exploring calls in flight together: a
\* scoped and a malformed descriptor, the documents whose version record is
\* complete or lacks its repository, one npm version, and manifests over the
\* first path with the first fingerprint.
SmallEnv ==
  [descriptors |-> { <<"@", "s", "/", "a", "@", "1">>, <<"@", "s">> },
   infos |-> { i \in Infos :
                 /\ i.distTags.present /\ i.versions.present
                 /\ i.versions.map[V1].gitHead = Commit
                 /\ i.versions.map[V1].dist.tarball = Tarball
                 /\ i.versions.map[V1].repository \in
                      {NoRepository,
                       [present |-> TRUE, type |-> "git", url |-> SampleUrl]} },
   npmVersions |-> { <<5, 7, 0>> },
   manifests |-> { m \in Manifests :
                     DOMAIN m \subseteq {1} /\ \A p \in DOMAIN m : m[p] = 1 }]

\* A wider choice of what verify is called with and of what the registry and
\* npm answer, with one complete version record and the smaller manifests:
\* descriptors with and without scope and version, with a dist-tag as
\* version, with an empty version, and malformed ones (empty, "@1", "@s");
\* documents without dist-tags, with none, with latest, with latest and n,
\* and without versions, with version 1, with versions 1 and 2; npm versions
\* around 5.7.0.
V2 == <<"2">>
NextTag == <<"n">>
CompleteVersionInfo ==
  [present |-> TRUE,
   repository |-> [present |-> TRUE, type |-> "git", url |-> SampleUrl],
   gitHead |-> Commit, legacyShasum |-> Undefined,
   dist |-> [present |-> TRUE, tarball |-> Tarball, shasum |-> Shasum]]
FrontDescriptors ==
  { <<>>, <<"a">>, <<"a", "@">>, <<"a", "@", "1">>, <<"a", "@", "2">>,
    <<"a", "@", "n">>, <<"@", "1">>, <<"@", "s">>, <<"@", "s", "/", "a">>,
    <<"@", "s", "/", "a", "@", "1">> }
FrontInfos ==
  { [distTags |-> dt, versions |-> vs] :
      dt \in { [present |-> FALSE, map |-> <<>>],
               [present |-> TRUE, map |-> <<>>],
               [present |-> TRUE, map |-> [k \in {Latest} |-> V1]],
               [present |-> TRUE,
                map |-> [k \in {Latest, NextTag} |->
                           IF k = Latest THEN V1 ELSE V2]] },
      vs \in { [present |-> FALSE, map |-> <<>>],
               [present |-> TRUE, map |-> [k \in {V1} |-> CompleteVersionInfo]],
               [present |-> TRUE,
                map |-> [k \in {V1, V2} |-> CompleteVersionInfo]] } }
FrontNpmVersions ==
  { <<major, minor, patch>> :
      major \in {4, 5, 6}, minor \in {0, 6, 7, 8, 10}, patch \in {0, 1} }
FrontEnv ==
  [descriptors |-> FrontDescriptors, infos |-> FrontInfos,
   npmVersions |-> FrontNpmVersions, manifests |-> SmallEnv.manifests]

InitRuns ==
  /\ procCwd = OrigDir
  /\ dirs = {OrigDir}
  /\ pc = [r \in Runs |-> "idle"]
  /\ result = [r \in Runs |-> "none"]
  /\ progress = [r \in Runs |-> createProgress]
  /\ message = [r \in Runs |-> [s \in StageSet |-> NoMsg]]
  /\ hasFailed = [r \in Runs |-> FALSE]
  /\ log = [r \in Runs |-> <<>>]
  /\ npmVersion = [r \in Runs |-> <<>>]
  /\ packageDescriptor = [r \in Runs |-> Undefined]
  /\ scope = [r \in Runs |-> Undefined]
  /\ packageName = [r \in Runs |-> Undefined]
  /\ version = [r \in Runs |-> Undefined]
  /\ request = [r \in Runs |-> Undefined]
  /\ info = [r \in Runs |-> NoInfo]
  /\ versionInfo = [r \in Runs |-> NoVersionInfo]
  /\ resolvedVersion = [r \in Runs |-> Undefined]
  /\ repoUrl = [r \in Runs |-> Undefined]
  /\ gitHead = [r \in Runs |-> Undefined]
  /\ tarballUri = [r \in Runs |-> Undefined]
  /\ cwd = [r \in Runs |-> NoDir]
  /\ tempDir = [r \in Runs |-> NoDir]
  /\ cleanupDir = [r \in Runs |-> NoDir]
  /\ fetching = [r \in Runs |-> NoRef]
  /\ refspec = [r \in Runs |-> NoRef]
  /\ cmds = [r \in Runs |-> <<>>]
  /\ lastCmd = [r \in Runs |-> [cmd |-> "", cwd |-> NoDir]]
  /\ rm = [r \in Runs |-> "none"]
  /\ stdout = [r \in Runs |-> Null]
  /\ failedWithoutDependencies = [r \in Runs |-> FALSE]
  /\ generatedManifest = [r \in Runs |-> Acq("idle", <<>>)]
  /\ publishedManifest = [r \in Runs |-> Acq("idle", <<>>)]
  /\ diff = [r \in Runs |-> NoDiff]

\* The inputs the calls draw from.
Inputs ==
  CASE env = "small" -> SmallEnv
    [] env = "front" -> FrontEnv
    [] OTHER -> FullEnv

Init == env = "full" /\ InitRuns
InitConc == env = "small" /\ InitRuns
InitFront == env = "front" /\ InitRuns

\* The Engine state of run r.
Engine(r) ==
  [progress |-> progress[r], message |-> message[r],
   hasFailed |-> hasFailed[r], log |-> log[r]]

(* ----------------------- continuations of verify ----------------------- *)
(* A continuation is the record of what one run has done when it next      *)
(* suspends or settles: its Engine state e, the await pc it stops at, the  *)
(* result (none while suspended), verify's cleanupDir, the process cwd it  *)
(* leaves, its saved local cwd, and the command it handed to exec (the     *)
(* awaited one, or the rm -rf of the finally block).                       *)

Cont(e, at, res, cdir, pcwd, saved, exec) ==
  [e |-> e, pc |-> at, result |-> res, cleanupDir |-> cdir,
   procCwd |-> pcwd, cwd |-> saved, exec |-> exec]

\* verify returns or throws before its try block (lines 15-32).
Settle(e, res, pcwd, saved) == Cont(e, "done", res, NoDir, pcwd, saved, NoCmd)

\* verify leaves its try block (lines 35-53): the finally block hands
\* rm -rf to exec, without awaiting it, when cleanupDir is set.
Finally(e, res, cdir, pcwd, saved) ==
  Cont(e, "done", res, cdir, pcwd, saved,
       IF cdir # NoDir THEN Cmd("rm -rf", cdir) ELSE NoCmd)

\* process.cwd() and process.chdir(d) throw when the directory is gone.
CwdThrows(pcwd, D) == pcwd \notin D
ChdirThrows(d, D) == d \notin D

\* verify line 48-50, after compare returned.
afterCompare(e, tdir, pcwd, saved) ==
  IF e.hasFailed THEN Finally(e, "false", tdir, pcwd, saved)
  ELSE Finally(e, "true", tdir, pcwd, saved)

\* afterPack going on to compare whatever hasFailed says.
afterPackNoStop(e, tdir, pcwd, saved) ==
  Cont(updateProgress(e, "compare", "working", NoMsg),
       "compare", "none", tdir, pcwd, saved, NoCmd)

\* verify lines 45-47 and compare line 345, after pack returned: compare
\* starts its two acquisitions and awaits both.
afterPack(e, tdir, pcwd, saved) ==
  IF e.hasFailed THEN Finally(e, "false", tdir, pcwd, saved)
  ELSE Cont(updateProgress(e, "compare", "working", NoMsg),
            "compare", "none", tdir, pcwd, saved, NoCmd)

\* pack restores the working directory and returns (lines 310-311, 324-325,
\* 330-331); e holds the stage update made just before.
packReturns(e, tdir, pcwd, saved, D) ==
  IF ChdirThrows(saved, D) THEN Finally(e, "rejected", tdir, pcwd, saved)
  ELSE afterPack(e, tdir, saved, saved)

\* pack lines 282-291: the first npm pack, run after chdir(tempDir).
startPack(e, tdir, pcwd, saved, D) ==
  LET e1 == updateProgress(e, "pack", "working", NoMsg) IN
  IF CwdThrows(pcwd, D) THEN Finally(e1, "rejected", tdir, pcwd, saved)
  ELSE IF ChdirThrows(tdir, D) THEN Finally(e1, "rejected", tdir, pcwd, pcwd)
  ELSE Cont(e1, "pack1", "none", tdir, tdir, pcwd,
            Cmd("npm pack --unsafe-perm", <<>>))

\* afterCheckout going on to pack whatever hasFailed says.
afterCheckoutNoStop(e, tdir, pcwd, saved, D) == startPack(e, tdir, pcwd, saved, D)

\* verify lines 41-44, after checkout returned tempDir = tdir.
afterCheckout(e, tdir, pcwd, saved, D) ==
  IF e.hasFailed THEN Finally(e, "false", tdir, pcwd, saved)
  ELSE startPack(e, tdir, pcwd, saved, D)

\* checkoutFails returning without setting the stage to fail.
checkoutFailsSilently(e, msg, tdir, pcwd, saved, D) ==
  IF ChdirThrows(saved, D) THEN Finally(e, "rejected", NoDir, pcwd, saved)
  ELSE afterCheckout(e, tdir, saved, saved, D)

\* A catch block of checkout after the Workspace exists (lines 206-213,
\* 219-226, 236-243, 255-262, 270-273): the stage fails, the working
\* directory is restored, and tempDir is returned.  When chdir throws,
\* checkout rejects and verify never learns tempDir.
checkoutFails(e, msg, tdir, pcwd, saved, D) ==
  LET e1 == updateProgress(e, "checkout", "fail", msg) IN
  IF ChdirThrows(saved, D) THEN Finally(e1, "rejected", NoDir, pcwd, saved)
  ELSE afterCheckout(e1, tdir, saved, saved, D)

\* checkout lines 276-278: restore the working directory, then pass.
checkoutPasses(e, tdir, pcwd, saved, D) ==
  IF ChdirThrows(saved, D) THEN Finally(e, "rejected", NoDir, pcwd, saved)
  ELSE afterCheckout(updateProgress(e, "checkout", "pass", NoMsg),
                     tdir, saved, saved, D)

\* checkout lines 189-195: the stage starts and createTemp is awaited.
startCheckout(e, pcwd, D) ==
  LET e1 == updateProgress(e, "checkout", "working", NoMsg) IN
  IF CwdThrows(pcwd, D) THEN Finally(e1, "rejected", NoDir, pcwd, NoDir)
  ELSE Cont(e1, "createTemp", "none", NoDir, pcwd, pcwd, NoCmd)

\* afterRegistry going on to checkout whatever hasFailed says.
afterRegistryNoStop(e, pcwd, D) == startCheckout(e, pcwd, D)

\* verify line 32, after registry returned.
afterRegistry(e, pcwd, D) ==
  IF e.hasFailed THEN Settle(e, "false", pcwd, NoDir)
  ELSE startCheckout(e, pcwd, D)

\* The message of checkout when both tag fetches failed (line 259).
tagFetchMessage(v) ==
  Msg("Unable fetch tag from remote", <<TagRef(v), VTagRef(v)>>)

\* The message of checkout when the commit fetch failed (line 240):
\* gitHead.substring(0, 7).
commitFetchMessage(g) ==
  Msg("Unable fetch commit from remote",
      <<CommitRef(SubSeq(g, 1, IF Len(g) < 7 THEN Len(g) ELSE 7))>>)

\* firstRefspec trying the plain tag before the v-prefixed one.
firstRefspecPlainTag(g, v) == IF Truthy(g) THEN CommitRef(g) ELSE TagRef(v)

\* The first refspec checkout fetches (lines 231-249).
firstRefspec(g, v) == IF Truthy(g) THEN CommitRef(g) ELSE VTagRef(v)

\* diffIsEmpty forgetting the modified list.
diffIsEmptyButModified(d) == d.added = {} /\ d.removed = {}

\* compare line 356: all three lists of the diff are empty.
diffIsEmpty(d) == d.added = {} /\ d.modified = {} /\ d.removed = {}

(* ------------------------------- actions ------------------------------- *)

\* Run r takes the continuation n.
Apply(r, n) ==
  /\ progress' = [progress EXCEPT ![r] = n.e.progress]
  /\ message' = [message EXCEPT ![r] = n.e.message]
  /\ hasFailed' = [hasFailed EXCEPT ![r] = n.e.hasFailed]
  /\ log' = [log EXCEPT ![r] = n.e.log]
  /\ pc' = [pc EXCEPT ![r] = n.pc]
  /\ result' = [result EXCEPT ![r] = n.result]
  /\ cleanupDir' = [cleanupDir EXCEPT ![r] = n.cleanupDir]
  /\ procCwd' = n.procCwd
  /\ cwd' = [cwd EXCEPT ![r] = n.cwd]
  /\ cmds' = IF n.exec.cmd = "" THEN cmds
             ELSE [cmds EXCEPT ![r] = Append(@, n.exec)]
  /\ lastCmd' = IF n.exec.cmd = "" THEN lastCmd
                ELSE [lastCmd EXCEPT ![r] =
                        [cmd |-> n.exec.cmd, cwd |-> n.procCwd]]
  /\ rm' = IF n.exec.cmd = "rm -rf" THEN [rm EXCEPT ![r] = "running"] ELSE rm

\* verify lines 14-22: parse the descriptor, reset the Engine state, and
\* await node --version.
VerifyStart(r) ==
  /\ pc[r] = "idle"
  /\ \E d \in Inputs.descriptors :
       LET parts == splitPackageDescriptor(d) IN
       IF parts.threw
       THEN /\ Apply(r, Settle(Engine(r), "rejected", procCwd, cwd[r]))
            /\ packageDescriptor' = [packageDescriptor EXCEPT ![r] = d]
            /\ UNCHANGED <<scope, packageName, version>>
       ELSE /\ Apply(r, Cont([progress |-> createProgress,
                              message |-> [s \in StageSet |-> NoMsg],
                              hasFailed |-> FALSE, log |-> <<>>],
                             "nodeVersion", "none", NoDir, procCwd, cwd[r],
                             Cmd("node --version", <<>>)))
            /\ packageDescriptor' = [packageDescriptor EXCEPT ![r] = d]
            /\ scope' = [scope EXCEPT ![r] = parts.scope]
            /\ packageName' = [packageName EXCEPT ![r] = parts.packageName]
            /\ version' = [version EXCEPT ![r] = parts.version]
  /\ UNCHANGED <<packVars, regVars, fetchVars, cmpVars, dirs, npmVersion, request, tempDir, env>>

\* verify lines 22-23: node --version answers (or exec rejects and verify
\* with it); npm --version is awaited.
NodeVersionDone(r) ==
  /\ pc[r] = "nodeVersion"
  /\ \E ok \in BOOLEAN :
       IF ok
       THEN Apply(r, Cont(Engine(r), "npmVersion", "none", NoDir, procCwd,
                          cwd[r], Cmd("npm --version", <<>>)))
       ELSE Apply(r, Settle(Engine(r), "rejected", procCwd, cwd[r]))
  /\ UNCHANGED <<packVars, descVars, regVars, fetchVars, cmpVars, dirs, npmVersion,
                 request, tempDir, env>>

\* verify lines 23-31 and registry lines 84-91: npm --version answers;
\* registry starts and awaits the GET of the package document.
NpmVersionDone(r) ==
  /\ pc[r] = "npmVersion"
  /\ \E ok \in BOOLEAN, v \in Inputs.npmVersions :
       IF ok
       THEN /\ Apply(r, Cont(updateProgress(Engine(r), "registry", "working", NoMsg),
                             "registryGet", "none", NoDir, procCwd, cwd[r], NoCmd))
            /\ npmVersion' = [npmVersion EXCEPT ![r] = v]
            /\ request' = [request EXCEPT ![r] =
                 IF scope[r] # Undefined
                 THEN scope[r] \o <<"/">> \o packageName[r]
                 ELSE packageName[r]]
       ELSE /\ Apply(r, Settle(Engine(r), "rejected", procCwd, cwd[r]))
            /\ UNCHANGED <<npmVersion, request>>
  /\ UNCHANGED <<packVars, descVars, regVars, fetchVars, cmpVars, dirs, tempDir, env>>

\* registry lines 88-182 and verify lines 25-36: the GET answers; registry
\* runs to its return; verify stops on a failure or starts checkout.
RegistryGot(r) ==
  /\ pc[r] = "registryGet"
  /\ \E fetched \in BOOLEAN, i \in Inputs.infos :
       LET out == registry(fetched, i, version[r])
           e1 == updateAll(Engine(r), out.ups)
       IN
       /\ Apply(r, afterRegistry(e1, procCwd, dirs))
       /\ info' = [info EXCEPT ![r] = IF fetched THEN i ELSE NoInfo]
       /\ versionInfo' = [versionInfo EXCEPT ![r] = out.versionInfo]
       /\ resolvedVersion' = [resolvedVersion EXCEPT ![r] =
            Get(out.ret, "resolvedVersion", Undefined)]
       /\ repoUrl' = [repoUrl EXCEPT ![r] = Get(out.ret, "repoUrl", Undefined)]
       /\ gitHead' = [gitHead EXCEPT ![r] = Get(out.ret, "gitHead", Undefined)]
       /\ tarballUri' = [tarballUri EXCEPT ![r] =
            Get(out.ret, "tarballUri", Undefined)]
  /\ request' = [request EXCEPT ![r] = Undefined]
  /\ packageDescriptor' = [packageDescriptor EXCEPT ![r] = Undefined]
  /\ scope' = [scope EXCEPT ![r] = Undefined]
  /\ packageName' = [packageName EXCEPT ![r] = Undefined]
  /\ version' = [version EXCEPT ![r] = Undefined]
  /\ UNCHANGED <<packVars, fetchVars, cmpVars, dirs, npmVersion, tempDir, env>>

\* checkout lines 194-205: createTemp answers.  On success the process
\* changes into the Workspace and git init is awaited; on failure checkout
\* returns {} and verify stops.
CreateTempDone(r) ==
  /\ pc[r] = "createTemp"
  /\ \E ok \in BOOLEAN :
       IF ok
       THEN /\ tempDir' = [tempDir EXCEPT ![r] = Dir(r)]
            /\ dirs' = dirs \cup {Dir(r)}
            /\ Apply(r, Cont(Engine(r), "gitInit", "none", NoDir, Dir(r),
                             cwd[r], Cmd("git init", <<>>)))
       ELSE /\ Apply(r, afterCheckout(
                   updateProgress(Engine(r), "checkout", "fail",
                                  Msg("Error creating temp directory", <<>>)),
                   NoDir, procCwd, cwd[r], dirs))
            /\ UNCHANGED <<tempDir, dirs>>
  /\ UNCHANGED <<packVars, descVars, regVars, fetchVars, cmpVars, npmVersion, request, env>>

\* checkout lines 204-218: git init answers; git remote add is awaited.
GitInitDone(r) ==
  /\ pc[r] = "gitInit"
  /\ \E ok \in BOOLEAN :
       IF ok
       THEN Apply(r, Cont(Engine(r), "gitRemote", "none", NoDir, procCwd,
                          cwd[r], Cmd("git remote add origin", repoUrl[r])))
       ELSE Apply(r, checkoutFails(Engine(r),
                   Msg("Error initializing git repo in temp directory", <<>>),
                   tempDir[r], procCwd, cwd[r], dirs))
  /\ UNCHANGED <<packVars, descVars, regVars, fetchVars, cmpVars, dirs, npmVersion,
                 request, tempDir, env>>

\* checkout lines 217-248: git remote add answers; the first fetch is
\* awaited, of the commit when gitHead is known, of the v-tag otherwise.
GitRemoteDone(r) ==
  /\ pc[r] = "gitRemote"
  /\ \E ok \in BOOLEAN :
       IF ok
       THEN /\ fetching' = [fetching EXCEPT ![r] =
                 firstRefspec(gitHead[r], resolvedVersion[r])]
            /\ Apply(r, Cont(Engine(r), "fetch", "none", NoDir, procCwd, cwd[r],
                             Cmd("git fetch --depth 1 origin",
                                 firstRefspec(gitHead[r], resolvedVersion[r]))))
       ELSE /\ Apply(r, checkoutFails(Engine(r),
                   Msg("Error initializing git repo in temp directory", <<>>),
                   tempDir[r], procCwd, cwd[r], dirs))
            /\ UNCHANGED fetching
  /\ UNCHANGED <<packVars, descVars, regVars, refspec, cmpVars, dirs, npmVersion,
                 request, tempDir, env>>

\* checkout lines 231-269: a fetch answers.  A success records the refspec
\* and awaits git checkout FETCH_HEAD; a failed v-tag fetch awaits the fetch
\* of the plain tag; any other failure fails the stage.
FetchDone(r) ==
  /\ pc[r] = "fetch"
  /\ \E ok \in BOOLEAN :
       IF ok
       THEN /\ refspec' = [refspec EXCEPT ![r] = fetching[r]]
            /\ Apply(r, Cont(Engine(r), "gitCheckout", "none", NoDir, procCwd,
                             cwd[r], Cmd("git checkout FETCH_HEAD", <<>>)))
            /\ UNCHANGED fetching
       ELSE IF Truthy(gitHead[r])
       THEN /\ Apply(r, checkoutFails(Engine(r), commitFetchMessage(gitHead[r]),
                                      tempDir[r], procCwd, cwd[r], dirs))
            /\ UNCHANGED fetchVars
       ELSE IF fetching[r] = VTagRef(resolvedVersion[r])
       THEN /\ fetching' = [fetching EXCEPT ![r] = TagRef(resolvedVersion[r])]
            /\ Apply(r, Cont(Engine(r), "fetch", "none", NoDir, procCwd, cwd[r],
                             Cmd("git fetch --depth 1 origin",
                                 TagRef(resolvedVersion[r]))))
            /\ UNCHANGED refspec
       ELSE /\ Apply(r, checkoutFails(Engine(r),
                                      tagFetchMessage(resolvedVersion[r]),
                                      tempDir[r], procCwd, cwd[r], dirs))
            /\ UNCHANGED fetchVars
  /\ UNCHANGED <<packVars, descVars, regVars, cmpVars, dirs, npmVersion, request, tempDir, env>>

\* checkout lines 268-278, verify lines 41-44 and pack lines 282-291: git
\* checkout answers; on success checkout passes and pack awaits npm pack.
GitCheckoutDone(r) ==
  /\ pc[r] = "gitCheckout"
  /\ \E ok \in BOOLEAN :
       IF ok
       THEN Apply(r, checkoutPasses(Engine(r), tempDir[r], procCwd, cwd[r], dirs))
       ELSE Apply(r, checkoutFails(Engine(r),
                                   Msg("Unable to checkout FETCH_HEAD", <<>>),
                                   tempDir[r], procCwd, cwd[r], dirs))
  /\ UNCHANGED <<packVars, descVars, regVars, fetchVars, cmpVars, dirs, npmVersion,
                 request, tempDir, env>>

\* compare lines 345-350: both acquisitions are started when compare is.
StartAcquisitions(r) ==
  IF pc'[r] = "compare"
  THEN /\ generatedManifest' = [generatedManifest EXCEPT ![r] = Acq("pending", <<>>)]
       /\ publishedManifest' = [publishedManifest EXCEPT ![r] = Acq("pending", <<>>)]
       /\ UNCHANGED diff
  ELSE UNCHANGED cmpVars

\* pack lines 290-302 and 329-331: the first npm pack answers.  On success
\* install is skipped and pack passes; on failure the installer is awaited.
Pack1Done(r) ==
  /\ pc[r] = "pack1"
  /\ \E ok \in BOOLEAN :
       /\ IF ok
          THEN Apply(r, packReturns(
                      updateProgress(
                        updateProgress(Engine(r), "install", "skipped", NoMsg),
                        "pack", "pass", NoMsg),
                      tempDir[r], procCwd, cwd[r], dirs))
          ELSE Apply(r, Cont(
                      updateProgress(
                        updateProgress(Engine(r), "pack", "pending",
                                       Msg("Waiting for dependencies", <<>>)),
                        "install", "working", NoMsg),
                      "install", "none", cleanupDir[r], procCwd, cwd[r],
                      Cmd(npmci(npmVersion[r]), <<>>)))
       /\ stdout' = [stdout EXCEPT ![r] = IF ok THEN <<"out">> ELSE Null]
       /\ failedWithoutDependencies' =
            [failedWithoutDependencies EXCEPT ![r] = ~ok]
  /\ StartAcquisitions(r)
  /\ UNCHANGED <<descVars, regVars, fetchVars, dirs, npmVersion, request, tempDir, env>>

\* InstallDone going on to the second npm pack when the installer failed.
InstallDoneRetries(r) ==
  /\ pc[r] = "install"
  /\ \E ok \in BOOLEAN :
       IF ok
       THEN Apply(r, Cont(
                   updateProgress(
                     updateProgress(Engine(r), "install", "pass", NoMsg),
                     "pack", "working", NoMsg),
                   "pack2", "none", cleanupDir[r], procCwd, cwd[r],
                   Cmd("npm pack --unsafe-perm", <<>>)))
       ELSE Apply(r, Cont(
                   updateProgress(
                     updateProgress(Engine(r), "install", "fail",
                                    Msg("Error installing dependencies", <<>>)),
                     "pack", "working", NoMsg),
                   "pack2", "none", cleanupDir[r], procCwd, cwd[r],
                   Cmd("npm pack --unsafe-perm", <<>>)))
  /\ UNCHANGED <<packVars, descVars, regVars, fetchVars, cmpVars, dirs, npmVersion,
                 request, tempDir, env>>

\* pack lines 302-317: the installer answers.  On success install passes
\* and npm pack is awaited again; on failure install fails and pack returns.
InstallDone(r) ==
  /\ pc[r] = "install"
  /\ \E ok \in BOOLEAN :
       IF ok
       THEN Apply(r, Cont(
                   updateProgress(
                     updateProgress(Engine(r), "install", "pass", NoMsg),
                     "pack", "working", NoMsg),
                   "pack2", "none", cleanupDir[r], procCwd, cwd[r],
                   Cmd("npm pack --unsafe-perm", <<>>)))
       ELSE Apply(r, packReturns(
                   updateProgress(Engine(r), "install", "fail",
                                  Msg("Error installing dependencies", <<>>)),
                   tempDir[r], procCwd, cwd[r], dirs))
  /\ UNCHANGED <<packVars, descVars, regVars, fetchVars, cmpVars, dirs, npmVersion,
                 request, tempDir, env>>

\* pack lines 317-331: the second npm pack answers.
Pack2Done(r) ==
  /\ pc[r] = "pack2"
  /\ \E ok \in BOOLEAN :
       /\ IF ok
          THEN Apply(r, packReturns(
                      updateProgress(Engine(r), "pack", "pass", NoMsg),
                      tempDir[r], procCwd, cwd[r], dirs))
          ELSE Apply(r, packReturns(
                      updateProgress(Engine(r), "pack", "fail",
                                     Msg("Error creating package from remote files", <<>>)),
                      tempDir[r], procCwd, cwd[r], dirs))
       /\ stdout' = [stdout EXCEPT ![r] = IF ok THEN <<"out">> ELSE Null]
       /\ UNCHANGED failedWithoutDependencies
  /\ StartAcquisitions(r)
  /\ UNCHANGED <<descVars, regVars, fetchVars, dirs, npmVersion, request, tempDir, env>>

\* compare lines 352-369 and verify lines 48-53: both manifests are there;
\* the diff is computed and traced, the stage passes or fails, and verify
\* returns.  threw: the diff computation raised an error.
compareBody(e, generated, published, threw) ==
  IF threw
  THEN updateProgress(e, "compare", "fail", Msg("error", <<>>))
  ELSE LET d == compareManifests(generated, published) IN
       IF diffIsEmpty(d)
       THEN updateProgress(e, "compare", "pass", NoMsg)
       ELSE updateProgress(e, "compare", "fail",
              Msg("files added, modified, removed",
                  <<Cardinality(d.added), Cardinality(d.modified),
                    Cardinality(d.removed)>>))

\* Promise.all of compare line 347 settles for run r once the acquisitions
\* are gen and pub: it rejects with the first failure (compare and verify
\* reject with it), waits while one is pending, and resolves when both are
\* there.
PromiseAll(r, gen, pub) ==
  IF gen.state = "failed" \/ pub.state = "failed"
  THEN /\ Apply(r, Finally(Engine(r), "rejected", cleanupDir[r], procCwd, cwd[r]))
       /\ UNCHANGED diff
  ELSE IF gen.state = "pending" \/ pub.state = "pending"
  THEN /\ Apply(r, Cont(Engine(r), "compare", "none", cleanupDir[r], procCwd,
                        cwd[r], NoCmd))
       /\ UNCHANGED diff
  ELSE \E threw \in BOOLEAN :
         /\ Apply(r, afterCompare(
                compareBody(Engine(r), gen.manifest, pub.manifest, threw),
                cleanupDir[r], procCwd, cwd[r]))
         /\ diff' = [diff EXCEPT ![r] =
              IF threw THEN NoDiff
              ELSE [computed |-> TRUE] @@
                   compareManifests(gen.manifest, pub.manifest)]

\* compare line 348: getManifestFromFile of the packed artifact answers.
LocalManifestDone(r) ==
  /\ pc[r] = "compare"
  /\ generatedManifest[r].state = "pending"
  /\ \E ok \in BOOLEAN, m \in Inputs.manifests :
       LET gen == IF ok THEN Acq("ok", m) ELSE Acq("failed", <<>>) IN
       /\ generatedManifest' = [generatedManifest EXCEPT ![r] = gen]
       /\ PromiseAll(r, gen, publishedManifest[r])
  /\ UNCHANGED <<packVars, descVars, regVars, fetchVars, publishedManifest, dirs,
                 npmVersion, request, tempDir, env>>

\* compare line 349: getManifestFromUri(tarballUri) answers; there is
\* nothing to fetch when the version record named no tarball.
RemoteManifestDone(r) ==
  /\ pc[r] = "compare"
  /\ publishedManifest[r].state = "pending"
  /\ \E ok \in BOOLEAN, m \in Inputs.manifests :
       LET pub == IF ok /\ Truthy(tarballUri[r]) THEN Acq("ok", m)
                  ELSE Acq("failed", <<>>) IN
       /\ publishedManifest' = [publishedManifest EXCEPT ![r] = pub]
       /\ PromiseAll(r, generatedManifest[r], pub)
  /\ UNCHANGED <<packVars, descVars, regVars, fetchVars, generatedManifest, dirs,
                 npmVersion, request, tempDir, env>>

\* The rm -rf of the finally block (line 52) completes: the Workspace is
\* gone.
RmDone(r) ==
  /\ rm[r] = "running"
  /\ rm' = [rm EXCEPT ![r] = "done"]
  /\ dirs' = dirs \ {cleanupDir[r]}
  /\ UNCHANGED <<packVars, engineVars, descVars, regVars, fetchVars, cmpVars, pc, result,
                 cleanupDir, procCwd, cwd, cmds, lastCmd, npmVersion, request,
                 tempDir, env>>

Step(r) ==
  \/ VerifyStart(r)
  \/ NodeVersionDone(r)
  \/ NpmVersionDone(r)
  \/ RegistryGot(r)
  \/ CreateTempDone(r)
  \/ GitInitDone(r)
  \/ GitRemoteDone(r)
  \/ FetchDone(r)
  \/ GitCheckoutDone(r)
  \/ Pack1Done(r)
  \/ InstallDone(r)
  \/ Pack2Done(r)
  \/ LocalManifestDone(r)
  \/ RemoteManifestDone(r)
  \/ RmDone(r)

\* One verify call in the process, as the command line makes it.
Solo == {1}
Next == \E r \in Solo : Step(r)
Spec == Init /\ [][Next]_vars

\* One verify call, over the wider choice of descriptors, registry documents
\* and npm versions.
SpecFront == InitFront /\ [][Next]_vars

\* Independent verify calls in flight in one process.
NextConc == \E r \in Runs : Step(r)
SpecConc == InitConc /\ [][NextConc]_vars

(* ------------------------------- claims -------------------------------- *)

Settled(r) == result[r] # "none"
Allocated(r) == tempDir[r] # NoDir
IsFetch(c) == c.cmd = "git fetch --depth 1 origin"
IsGit(c) == c.cmd \in GitCmds
\* The refspecs run r has fetched, in order.
Fetches(r) ==
  LET f == SelectSeq(cmds[r], IsFetch) IN [i \in 1..Len(f) |-> f[i].arg]
Issued(r, cmd) == \E i \in 1..Len(cmds[r]) : cmds[r][i].cmd = cmd

\* C1: when the promise of verify settles (true, or false after a stage
\* failure), the Workspace the call allocated no longer exists.
C1_WorkspaceGoneWhenSettled ==
  \A r \in Runs :
    result[r] \in {"true", "false"} /\ Allocated(r) => tempDir[r] \notin dirs

\* C2: whichever way verify exits, the cleanup of the call deletes every
\* Workspace the call allocated; so once verify has exited, the finally block
\* has handed the removal of that Workspace to exec.
C2_EveryWorkspaceCleanedUp ==
  \A r \in Runs :
    Settled(r) /\ Allocated(r) => rm[r] # "none" /\ cleanupDir[r] = tempDir[r]

\* The commands run r hands to exec in this step.
NewCmds(r) == SubSeq(cmds'[r], Len(cmds[r]) + 1, Len(cmds'[r]))

\* C3: within one verify call hasFailed is true exactly when a stage has
\* been set to fail (a warn does not raise it) and stays true; from then on
\* no stage changes its status, no command but the removal of the Workspace
\* is handed to exec, and verify resolves false.
C3_FailIsFinal ==
  /\ [](\A r \in Runs :
          /\ hasFailed[r] <=> \E s \in StageSet : progress[r][s] = "fail"
          /\ hasFailed[r] => result[r] = "false")
  /\ [][\A r \in Runs :
          hasFailed[r] =>
            /\ hasFailed'[r]
            /\ progress'[r] = progress[r]
            /\ result'[r] = "false"
            /\ \A i \in 1..Len(NewCmds(r)) : NewCmds(r)[i].cmd = "rm -rf"]_vars

\* A call that logged the gitHead warning, then failed in checkout, with
\* the later stages still pending.
C3_Witness ==
  \E r \in Runs :
    /\ hasFailed[r] /\ result[r] = "false"
    /\ progress[r]["checkout"] = "fail"
    /\ progress[r]["pack"] = "pending" /\ progress[r]["compare"] = "pending"
    /\ \E i \in 1..Len(log[r]) : log[r][i] = <<"gitHead", "warn">>
    /\ rm[r] = "done"

\* C4: verify resolves true exactly when the compare stage is pass, and the
\* compare stage, once decided, is pass exactly when the diff of the two
\* manifests was computed with nothing added, removed or modified.
\* Identical manifests whose diff was computed give true; a diff with one
\* modified path and nothing added or removed fails compare and gives false.
C4_TrueIffCompareClean ==
  \A r \in Runs :
    /\ result[r] = "true" <=> progress[r]["compare"] = "pass"
    /\ progress[r]["compare"] \in {"pass", "fail"} =>
         (progress[r]["compare"] = "pass" <=>
            /\ diff[r].computed
            /\ diff[r].added = {} /\ diff[r].removed = {} /\ diff[r].modified = {})
    /\ ( /\ diff[r].computed
         /\ generatedManifest[r].manifest = publishedManifest[r].manifest )
         => result[r] = "true"
    /\ ( /\ diff[r].computed
         /\ Cardinality(diff[r].modified) = 1
         /\ diff[r].added = {} /\ diff[r].removed = {} )
         => progress[r]["compare"] = "fail" /\ result[r] = "false"

\* A call whose two manifests hold every path with equal fingerprints, and
\* which resolved true.
C4_Witness ==
  \E r \in Runs :
    /\ result[r] = "true"
    /\ diff[r].computed
    /\ DOMAIN generatedManifest[r].manifest = Paths
    /\ generatedManifest[r].manifest = publishedManifest[r].manifest

\* C5: when one of the two manifest acquisitions of compare fails, the
\* compare stage is set to fail and verify resolves false (it does not
\* reject, and compare is not left working).
C5_AcquisitionFailureFailsCompare ==
  \A r \in Runs :
    generatedManifest[r].state = "failed" \/ publishedManifest[r].state = "failed"
      => progress[r]["compare"] = "fail" /\ result[r] = "false"

\* C6: with independent verify calls in flight, every command of the
\* pipeline a call hands to exec runs in that call's own Workspace.
C6_CommandsRunInOwnWorkspace ==
  \A r \in Runs :
    lastCmd[r].cmd \in PipelineCmds => lastCmd[r].cwd = tempDir[r]

\* C7: a version record without a repository field passes registry, fails
\* repo and resolves false with no checkout attempt: no Workspace, no git
\* command, and gitHead, checkout, install, pack and compare still pending.
C7_NoRepositoryNoCheckout ==
  \A r \in Runs :
    versionInfo[r].present /\ ~versionInfo[r].repository.present =>
      /\ progress[r]["registry"] = "pass"
      /\ progress[r]["repo"] = "fail"
      /\ result[r] = "false"
      /\ ~Allocated(r) /\ tempDir[r] \notin dirs /\ dirs = {OrigDir}
      /\ SelectSeq(cmds[r], IsGit) = <<>>
      /\ \A s \in {"gitHead", "checkout", "install", "pack", "compare"} :
           progress[r][s] = "pending"
      /\ pc[r] = "done" /\ rm[r] = "none"

C7_Witness ==
  \E r \in Runs :
    /\ versionInfo[r].present /\ ~versionInfo[r].repository.present
    /\ Settled(r)

\* C8: when checkout knows no commit hash it fetches tags/v<resolvedVersion>
\* first and tags/<resolvedVersion> only after that fetch failed; the first
\* fetch that succeeds is the refspec checked out.  When both fail, checkout
\* fails with a message naming both refspecs, git checkout FETCH_HEAD is
\* never run, and verify resolves false.
C8_TagFetchFallback ==
  \A r \in Runs :
    ~Truthy(gitHead[r]) =>
      LET v == resolvedVersion[r] IN
      /\ Fetches(r) \in {<<>>, <<VTagRef(v)>>, <<VTagRef(v), TagRef(v)>>}
      /\ refspec[r] = VTagRef(v) => Fetches(r) = <<VTagRef(v)>>
      /\ refspec[r] = TagRef(v) => Fetches(r) = <<VTagRef(v), TagRef(v)>>
      /\ Issued(r, "git checkout FETCH_HEAD") =>
           refspec[r] # NoRef /\ refspec[r] = Fetches(r)[Len(Fetches(r))]
      /\ ( /\ Fetches(r) = <<VTagRef(v), TagRef(v)>>
           /\ refspec[r] = NoRef /\ pc[r] # "fetch" ) =>
           /\ progress[r]["checkout"] = "fail"
           /\ \E i, j \in 1..Len(message[r]["checkout"].args) :
                /\ message[r]["checkout"].args[i] = VTagRef(v)
                /\ message[r]["checkout"].args[j] = TagRef(v)
           /\ ~Issued(r, "git checkout FETCH_HEAD")
           /\ result[r] = "false"

\* A call whose version record declares no commit and both of whose tag
\* fetches failed.
C8_Witness ==
  \E r \in Runs :
    /\ versionInfo[r].present /\ ~Truthy(versionInfo[r].gitHead)
    /\ Fetches(r) = <<VTagRef(V1), TagRef(V1)>>
    /\ refspec[r] = NoRef /\ Settled(r)

\* C9: when the version record declares a commit hash, registry outputs it
\* to verify and every fetch of checkout is of exactly that commit.
C9_DeclaredCommitIsFetched ==
  \A r \in Runs :
    resolvedVersion[r] # Undefined /\ Truthy(versionInfo[r].gitHead) =>
      /\ gitHead[r] = versionInfo[r].gitHead
      /\ \A i \in 1..Len(Fetches(r)) :
           Fetches(r)[i] = CommitRef(versionInfo[r].gitHead)

\* C10: when the version record lacks a commit hash, hasFailed stays false
\* after registry, checkout is started, and the gitHead stage still holds
\* warn when verify returns.
C10_WarningIsKept ==
  \A r \in Runs :
    ( /\ resolvedVersion[r] # Undefined
      /\ versionInfo[r].present /\ ~Truthy(versionInfo[r].gitHead) ) =>
      /\ progress[r]["checkout"] # "pending"
      /\ Settled(r) => progress[r]["gitHead"] = "warn"

IsInstaller(c) == c.cmd \in {"cipm", "npm ci"}
\* The installer commands run r has handed to exec, in order.
Installers(r) == SelectSeq(cmds[r], IsInstaller)

\* C11: an install step runs exactly one installer: cipm when the npm
\* version <<major, minor, patch>> is below 5.7.0 (major below 5, or major 5
\* and minor below 7), npm ci when it is 5.7.0 or above; a call that has no
\* install step runs none.
C11_InstallerByVersion ==
  \A r \in Runs :
    /\ Len(Installers(r)) =
         IF progress[r]["install"] \in {"working", "pass", "fail"} THEN 1 ELSE 0
    /\ Len(Installers(r)) = 1 =>
         LET v == npmVersion[r]
             below == v[1] < 5 \/ (v[1] = 5 /\ v[2] < 7)
         IN Installers(r)[1].cmd = IF below THEN "cipm" ELSE "npm ci"

\* A call under npm 5.7.0 itself whose install step has run npm ci and
\* passed.
C11_Witness ==
  \E r \in Runs :
    /\ npmVersion[r] = <<5, 7, 0>>
    /\ progress[r]["install"] = "pass"
    /\ Installers(r) = <<Cmd("npm ci", <<>>)>>

\* The scope, name and version strings the descriptors are built from.
ScopeNames == { <<"s">> }
PackageNames == { <<"a">> }
VersionSpecs == { V1, V2, NextTag }

\* C12: while a call holds the parts of its descriptor, @scope/name@version
\* has given scope "@scope", name and version; name@version has given no
\* scope, name and version; without the @version suffix the version is
\* absent.  An absent version is then looked up as the dist-tag latest: the
\* registry stage resolves the value of latest when the document has that
\* tag and a record for it, and fails when the document has no such tag.
C12_DescriptorParts ==
  /\ [](\A r \in Runs : \A s \in ScopeNames, n \in PackageNames, v \in VersionSpecs :
          LET parts == <<scope[r], packageName[r], version[r]>> IN
          /\ packageDescriptor[r] = <<"@">> \o s \o <<"/">> \o n \o <<"@">> \o v
               => parts = <<(<<"@">> \o s), n, v>>
          /\ packageDescriptor[r] = <<"@">> \o s \o <<"/">> \o n
               => parts = <<(<<"@">> \o s), n, Undefined>>
          /\ packageDescriptor[r] = n \o <<"@">> \o v
               => parts = <<Undefined, n, v>>
          /\ packageDescriptor[r] = n
               => parts = <<Undefined, n, Undefined>>)
  /\ [][\A r \in Runs :
          ( /\ pc[r] = "registryGet" /\ pc'[r] # "registryGet"
            /\ version[r] = Undefined ) =>
            LET tags == info'[r].distTags
                records == info'[r].versions
            IN
            IF tags.present /\ Latest \in DOMAIN tags.map
            THEN IF records.present /\ tags.map[Latest] \in DOMAIN records.map
                 THEN /\ resolvedVersion'[r] = tags.map[Latest]
                      /\ progress'[r]["registry"] = "pass"
                 ELSE progress'[r]["registry"] = "fail"
            ELSE /\ progress'[r]["registry"] = "fail"
                 /\ resolvedVersion'[r] = Undefined]_vars

\* A call holding the parts of @s/a@1, about to ask the registry.
C12_Witness ==
  \E r \in Runs :
    /\ pc[r] = "registryGet"
    /\ packageDescriptor[r] = <<"@", "s", "/", "a", "@", "1">>
    /\ scope[r] = <<"@", "s">> /\ packageName[r] = <<"a">> /\ version[r] = V1

Terminal == {"pass", "fail", "warn", "skipped"}
\* The statuses stage s has held in the call of run r, in order, from the
\* pending createProgress gives it.
History(r, s) ==
  LET IsOf(u) == u[1] = s
      ups == SelectSeq(log[r], IsOf)
  IN <<"pending">> \o [i \in 1..Len(ups) |-> ups[i][2]]

\* C13: every status change of every stage goes from pending to working or
\* from working to one of pass, fail, warn, skipped: no stage returns to
\* pending, skips working, or changes once it holds a terminal status.
C13_StatusStateMachine ==
  \A r \in Runs : \A s \in StageSet :
    \A i \in 1..(Len(History(r, s)) - 1) :
      LET from == History(r, s)[i]
          to == History(r, s)[i + 1]
      IN \/ from = "pending" /\ to = "working"
         \/ from = "working" /\ to \in Terminal

\* C14: a stage has left pending only if every stage before it in the order
\* registry, repo, gitHead, checkout, install, pack, compare has.
C14_StagesInOrder ==
  \A r \in Runs : \A i, j \in 1..Len(Stages) :
    i < j /\ progress[r][Stages[j]] # "pending"
      => progress[r][Stages[i]] # "pending"

IsPack(c) == c.cmd = "npm pack --unsafe-perm"
\* The npm pack commands run r has handed to exec, in order.
Packs(r) == SelectSeq(cmds[r], IsPack)

\* C15: when the first npm pack has succeeded, install is skipped, no
\* installer has run and pack has passed on that one attempt.  When it has
\* failed, the installer has run exactly once; an installer failure leaves
\* install at fail with no second npm pack and pack not passed; an installer
\* success sets install to pass and npm pack is run exactly once more, whose
\* failure sets pack to fail.  pack is pass only when an npm pack succeeded.
C15_PackFallback ==
  \A r \in Runs :
    LET answered == Len(Packs(r)) >= 1 /\ pc[r] # "pack1" IN
    /\ Len(Packs(r)) <= 2
    /\ answered /\ ~failedWithoutDependencies[r] =>
         /\ progress[r]["install"] = "skipped"
         /\ Installers(r) = <<>>
         /\ Len(Packs(r)) = 1
         /\ progress[r]["pack"] = "pass"
    /\ answered /\ failedWithoutDependencies[r] =>
         /\ Len(Installers(r)) = 1
         /\ progress[r]["install"] \in {"working", "pass", "fail"}
         /\ progress[r]["install"] = "working" => pc[r] = "install"
         /\ progress[r]["install"] # "pass" =>
              Len(Packs(r)) = 1 /\ progress[r]["pack"] # "pass"
         /\ progress[r]["install"] = "pass" =>
              /\ Len(Packs(r)) = 2
              /\ pc[r] # "pack2" /\ stdout[r] = Null => progress[r]["pack"] = "fail"
    /\ progress[r]["pack"] = "pass" => stdout[r] # Null

\* A call whose first npm pack failed, whose installer succeeded and whose
\* second npm pack failed.
C15_Witness ==
  \E r \in Runs :
    /\ failedWithoutDependencies[r] /\ Len(Installers(r)) = 1
    /\ progress[r]["install"] = "pass" /\ progress[r]["pack"] = "fail"
    /\ Len(Packs(r)) = 2 /\ result[r] = "false"

\* The git commands run r has handed to exec, by name and in order.
GitSeq(r) ==
  LET g == SelectSeq(cmds[r], IsGit) IN [i \in 1..Len(g) |-> g[i].cmd]
GitSeqNext(r) ==
  LET g == SelectSeq(cmds'[r], IsGit) IN [i \in 1..Len(g) |-> g[i].cmd]
\* The order of checkout's git commands; the fetch may be tried twice.
CheckoutOrders ==
  { <<"git init", "git remote add origin", "git fetch --depth 1 origin",
      "git checkout FETCH_HEAD">>,
    <<"git init", "git remote add origin", "git fetch --depth 1 origin",
      "git fetch --depth 1 origin", "git checkout FETCH_HEAD">> }
CheckoutAwaits == {"createTemp", "gitInit", "gitRemote", "fetch", "gitCheckout"}

\* C16: the git commands of a call are an initial part of git init, git
\* remote add, fetch, git checkout FETCH_HEAD, issued in a Workspace
\* allocated before; the checkout stage is pass only when all of them were
\* issued.  When an awaited step of checkout answers, either the stage stays
\* working and exactly the next command is issued, or the stage is set to
\* fail, no further git command is issued and verify resolves false, or
\* (after git checkout) the stage is set to pass.
C16_CheckoutOrder ==
  /\ [](\A r \in Runs :
          /\ \E o \in CheckoutOrders : \E n \in 0..Len(o) : GitSeq(r) = SubSeq(o, 1, n)
          /\ GitSeq(r) # <<>> => Allocated(r)
          /\ progress[r]["checkout"] = "pending" => GitSeq(r) = <<>> /\ ~Allocated(r)
          /\ progress[r]["checkout"] = "pass" => GitSeq(r) \in CheckoutOrders)
  /\ [][\A r \in Runs :
          /\ progress[r]["checkout"] = "fail" => GitSeqNext(r) = GitSeq(r)
          /\ pc[r] \in CheckoutAwaits /\ pc'[r] # pc[r] =>
               \/ /\ progress'[r]["checkout"] = "working"
                  /\ pc'[r] \in CheckoutAwaits
                  /\ Len(NewCmds(r)) = 1 /\ Len(GitSeqNext(r)) = Len(GitSeq(r)) + 1
               \/ /\ progress'[r]["checkout"] = "fail"
                  /\ GitSeqNext(r) = GitSeq(r)
                  /\ result'[r] = "false"
               \/ /\ pc[r] = "gitCheckout"
                  /\ progress'[r]["checkout"] = "pass"
                  /\ GitSeqNext(r) = GitSeq(r)]_vars

\* A call that fetched on the second try and whose git checkout failed.
C16_Witness ==
  \E r \in Runs :
    /\ Len(GitSeq(r)) = 5 /\ GitSeq(r) \in CheckoutOrders
    /\ progress[r]["checkout"] = "fail" /\ result[r] = "false"

\* C17: when the registry answers, the version resolved is the value of the
\* dist-tag map at the version asked for (at latest when none was asked for)
\* if the map has that key, and the version asked for otherwise.  When there
\* is no such version, or the document has no record for it, the registry
\* stage is set to fail and repo stays pending; otherwise registry passes,
\* repo is visited, and the version is what registry returns.
C17_VersionResolution ==
  [][\A r \in Runs :
       pc[r] = "registryGet" /\ pc'[r] # "registryGet" =>
         LET asked == version[r]
             key == IF Truthy(asked) THEN asked ELSE Latest
             tags == info'[r].distTags
             records == info'[r].versions
             resolved == IF tags.present /\ key \in DOMAIN tags.map
                         THEN tags.map[key] ELSE asked
         IN
         IF /\ Truthy(resolved)
            /\ records.present /\ resolved \in DOMAIN records.map
         THEN /\ progress'[r]["registry"] = "pass"
              /\ progress'[r]["repo"] # "pending"
              /\ progress'[r]["repo"] = "pass" => resolvedVersion'[r] = resolved
         ELSE /\ progress'[r]["registry"] = "fail"
              /\ progress'[r]["repo"] = "pending"
              /\ resolvedVersion'[r] = Undefined
              /\ result'[r] = "false"]_vars

\* A call that resolved version 2 from a document whose dist-tags do not
\* lead to it: the version asked for, taken literally.
C17_Witness ==
  \E r \in Runs :
    /\ resolvedVersion[r] = V2
    /\ info[r].distTags.present
    /\ \A k \in DOMAIN info[r].distTags.map : info[r].distTags.map[k] # V2
    /\ progress[r]["registry"] = "pass"

\* C18: when the version record registry found declares no tarball URI, the
\* call stops at the registry resolver with a stage failure: checkout, pack
\* and compare stay pending.
C18_NoTarballHalts ==
  \A r \in Runs :
    ( /\ versionInfo[r].present
      /\ ~(versionInfo[r].dist.present /\ Truthy(versionInfo[r].dist.tarball)) ) =>
      /\ hasFailed[r]
      /\ \E s \in {"registry", "repo", "gitHead"} : progress[r][s] = "fail"
      /\ \A s \in {"checkout", "install", "pack", "compare"} :
           progress[r][s] = "pending"

\* A descriptor with an empty name, or a scoped one without its /name part.
Malformed(d) ==
  \/ d = <<>>
  \/ StartsWith(d, "@") /\ IndexOf(d, "/", 1) = 0
  \/ ~StartsWith(d, "@") /\ IndexOf(d, "@", 1) = 1
  \/ StartsWith(d, "@") /\ IndexOf(d, "/", 1) > 0
       /\ (IndexOf(d, "/", 1) = Len(d) \/ d[IndexOf(d, "/", 1) + 1] = "@")

\* C19: a call with a malformed descriptor is rejected with an error at
\* once: no stage has left pending, and no registry request and no command
\* has been issued.
C19_MalformedFailsFast ==
  \A r \in Runs :
    packageDescriptor[r] # Undefined /\ Malformed(packageDescriptor[r]) =>
      /\ result[r] = "rejected"
      /\ \A s \in StageSet : progress[r][s] = "pending"
      /\ request[r] = Undefined
      /\ cmds[r] = <<>>

\* C20: when verify has resolved true, every stage holds pass or skipped;
\* when it has resolved false, exactly one stage holds fail, no stage holds
\* working, and every stage after the failed one in the order of the stages
\* holds pending.
C20_ReportMatchesResult ==
  \A r \in Runs :
    /\ result[r] = "true" =>
         \A s \in StageSet : progress[r][s] \in {"pass", "skipped"}
    /\ result[r] = "false" =>
         /\ Cardinality({s \in StageSet : progress[r][s] = "fail"}) = 1
         /\ \A s \in StageSet : progress[r][s] # "working"
         /\ \A i, j \in 1..Len(Stages) :
              i < j /\ progress[r][Stages[i]] = "fail"
                => progress[r][Stages[j]] = "pending"

\* A call that resolved false on a failed installer, with pack back at
\* pending.
C20_Witness ==
  \E r \in Runs :
    /\ result[r] = "false"
    /\ progress[r]["install"] = "fail"
    /\ Len(Installers(r)) = 1

====
